---------------------------- MODULE Spec2Model ----------------------------
(***************************************************************************)
(* The save-time pipeline of the blog models: slug assignment on first     *)
(* save (Tag, Category, Page, Post), the row write with its unique slug    *)
(* column, the resize of a changed cover / favicon after the write (Post,  *)
(* SiteSetup) and the audit fields set by PostAdmin.save_model.            *)
(*                                                                         *)
(* A save touches one row of one table and never reads another table, so   *)
(* a behaviour is a behaviour of one table: Init draws the table (kind)    *)
(* and every flow of the behaviour works on it.  A flow is one request:    *)
(* it builds or reads an instance, assigns fields and calls save().  save()*)
(* is three steps, so that flows interleave where the code can be          *)
(* preempted: the head (slug, captured image name), super().save(), and    *)
(* the tail (resize).                                                      *)
(*                                                                         *)
(* Python values: a string is a tuple of one-character strings, "" is      *)
(* <<>>, None is the tuple None below (no string of the model equals it).  *)
(***************************************************************************)
EXTENDS Integers, Sequences, FiniteSets, TLC

VARIABLES
    kind,      \* the table of this behaviour
    db,        \* the table's rows
    files,     \* the media storage: stored name -> <<>> (as uploaded) or the resize arguments
    obj,       \* flow -> its in-memory model instance
    pc,        \* flow -> "idle" | "write" (before super().save()) | "post" (after it)
    trace,     \* flow -> what its save() did so far, in order
    last,      \* the save() that returned or raised last, until the next request: instance, trace, result
    audit      \* pk -> the admin requests that wrote the post (history)

vars == <<kind, db, files, obj, pc, trace, last, audit>>

--------------------------------------------------------------------------
(* Bounds *)

\* requests that can be in save() at the same time
NFlows == 2
\* rows of the table
MaxRows == 2
\* files in the media storage
MaxFiles == 2
\* random suffixes slugify_new can draw
NDraws == 2

Flows == 1..NFlows

--------------------------------------------------------------------------
(* Program constants *)

SlugSuffixLen == 4
CoverWidth == 900
CoverQuality == 75
FaviconWidth == 32

--------------------------------------------------------------------------
(* Values *)

None == <<"<None>">>
Empty == <<>>

Kinds == {"Tag", "Category", "Page", "Post", "SiteSetup"}

HasSlug(k) == k \in {"Tag", "Category", "Page", "Post"}

HasImage(k) == k \in {"Post", "SiteSetup"}

HasAudit(k) == k = "Post"

SlugDefault(k) == IF k \in {"Tag", "Category"} THEN None ELSE Empty

UploadTo(k) == IF k = "Post" THEN "posts/" ELSE "assets/favicon/"

\* mutant of ResizeSpec: the two call sites exchanged
SwappedSpec(k) ==
    IF k = "Post" THEN <<FaviconWidth>> ELSE <<CoverWidth, TRUE, CoverQuality>>

ResizeSpec(k) ==
    IF k = "Post" THEN <<CoverWidth, TRUE, CoverQuality>> ELSE <<FaviconWidth>>

Users == {<<"ana">>, <<"bob">>}

Names == {<<"A", " ">>, <<"b">>}

Uploads == {<<"pic">>}

\* a python truth test of a string or None: "if x" / "not x"
Truthy(s) == s # None /\ s # Empty

\* str(x)
PyStr(x) == IF x = None THEN <<"N", "o", "n", "e">> ELSE x

--------------------------------------------------------------------------
(* utils.rands.slugify_new, from the specification *)

IsAlnum(c) == c \in {"a", "b", "A", "B", "x", "y"}

Lower(c) == IF c = "A" THEN "a" ELSE IF c = "B" THEN "b" ELSE c

RECURSIVE Collapse(_, _)
\* lowercase, every run of non-alphanumerics becomes one separator
Collapse(n, acc) ==
    IF n = <<>> THEN acc
    ELSE IF IsAlnum(Head(n)) THEN Collapse(Tail(n), Append(acc, Lower(Head(n))))
    ELSE IF acc # <<>> /\ acc[Len(acc)] = "-" THEN Collapse(Tail(n), acc)
    ELSE Collapse(Tail(n), Append(acc, "-"))

RECURSIVE Strip(_)
Strip(s) ==
    IF s = <<>> THEN s
    ELSE IF Head(s) = "-" THEN Strip(Tail(s))
    ELSE IF s[Len(s)] = "-" THEN Strip(SubSeq(s, 1, Len(s) - 1))
    ELSE s

Normalize(n) == Strip(Collapse(n, <<>>))

\* the suffixes the random generator draws in the model, each of length k
Suffixes(k) == {[i \in 1..k |-> IF i <= j THEN "x" ELSE "y"] : j \in 1..NDraws}

Candidates(n, k) == {Normalize(n) \o <<"-">> \o suf : suf \in Suffixes(k)}

Taken(s) == \E r \in db : r.slug = s

\* the slugs slugify_new can return: a candidate no row of the table holds
SlugifyNew(n, k) == {s \in Candidates(n, k) : ~Taken(s)}

--------------------------------------------------------------------------
(* Instances and rows *)

NoImage == [name |-> Empty, committed |-> TRUE]

\* a flow that holds no instance
NoObj == [pk |-> 0, name |-> Empty, slug |-> None, img |-> NoImage,
          created_by |-> None, updated_by |-> None]

\* Model(): every field at its declared default
Blank == [NoObj EXCEPT !.slug = IF HasSlug(kind) THEN SlugDefault(kind) ELSE None]

UserSlug == <<"a", "-", "x", "y", "y", "y">>

NoLast == [obj |-> NoObj, trace |-> <<>>, result |-> "none"]

Init ==
    /\ kind \in Kinds
    /\ db = {}
    /\ files = <<>>
    /\ obj = [o \in Flows |-> NoObj]
    /\ pc = [o \in Flows |-> "idle"]
    /\ trace = [o \in Flows |-> <<>>]
    /\ last = NoLast
    /\ audit = <<>>

Event(e, v) == [ev |-> e, val |-> v]

\* Model.objects.get(pk=r.pk): an instance read from its row
LoadedInstance(r) ==
    [pk |-> r.pk, name |-> r.name, slug |-> r.slug,
     img |-> [name |-> r.img, committed |-> TRUE],
     created_by |-> r.created_by, updated_by |-> r.updated_by]

\* "this field is not assigned"
Keep == <<"<keep>">>

\* What a request assigns to the fields of instance x before it saves: each
\* scope names the assignments its requests draw from.
SlugInput(x, a) ==
    IF ~HasSlug(kind) \/ a = "keep" THEN x.slug
    ELSE IF a = "clear" THEN SlugDefault(kind)
    ELSE UserSlug

ImageInput(x, a) ==
    IF ~HasImage(kind) \/ a = Keep THEN x.img
    ELSE IF a = None THEN [name |-> None, committed |-> TRUE]
    ELSE IF a = Empty THEN NoImage
    ELSE [name |-> a, committed |-> FALSE]

Edited(x, n, s, i) ==
    [x EXCEPT !.name = n, !.slug = SlugInput(x, s), !.img = ImageInput(x, i)]

\* who calls save(): PostAdmin.save_model for a user's request, or other code
CallersOf(S) == IF HasAudit(kind) THEN S.callers ELSE {None}

\* requests that rename and set slugs
SlugScope ==
    [names |-> Names, slugs |-> {"keep", "clear", "user"}, images |-> {Keep},
     callers |-> {None}]

\* two requests at a time deriving slugs from the same normalized name
RaceScope ==
    [names |-> {<<"A", " ">>}, slugs |-> {"keep", "clear", "user"},
     images |-> {Keep}, callers |-> {None}]

\* requests that upload, clear and keep the cover or favicon
ImageScope ==
    [names |-> {<<"A", " ">>}, slugs |-> {"keep", "user"},
     images |-> {Keep, Empty, None} \cup Uploads, callers |-> {None}]

\* requests of the admin's users
AdminScope ==
    [names |-> {<<"A", " ">>}, slugs |-> {"keep", "user"}, images |-> {Keep},
     callers |-> Users]

\* save() returns or raises: the flow's request ends
Return(o, x, t, r) ==
    /\ last' = [obj |-> x, trace |-> t, result |-> r]
    /\ obj' = [obj EXCEPT ![o] = NoObj]
    /\ trace' = [trace EXCEPT ![o] = <<>>]
    /\ pc' = [pc EXCEPT ![o] = "idle"]

--------------------------------------------------------------------------
(* save() *)

\* mutants of SlugAbsent: the slug is always recomputed; only None counts as absent
AlwaysAbsent(s) == TRUE

OnlyNoneAbsent(s) == s = None

\* "if not self.slug"
SlugAbsent(s) == ~Truthy(s)

\* The head of save(), up to the call of super().save(): the slug is
\* assigned when absent, then (Post, SiteSetup) the image name is captured.
\* `before` is the instance save() is called on, `head` what the caller
\* did before calling it.
SaveHead(o, before, head) ==
    \E s \in IF HasSlug(kind) /\ SlugAbsent(before.slug)
             THEN SlugifyNew(before.name, SlugSuffixLen)
             ELSE {before.slug} :
        LET assigned == HasSlug(kind) /\ SlugAbsent(before.slug)
            t1 == Append(head, Event("save", before.slug))
            t2 == IF assigned THEN Append(t1, Event("assign", s)) ELSE t1
            t3 == IF HasImage(kind)
                  THEN Append(t2, Event("capture", PyStr(before.img.name)))
                  ELSE t2
        IN  /\ obj' = [obj EXCEPT ![o] = [before EXCEPT !.slug = s]]
            /\ trace' = [trace EXCEPT ![o] = t3]
            /\ pc' = [pc EXCEPT ![o] = "write"]
            /\ last' = NoLast
            /\ UNCHANGED <<kind, db, files, audit>>

\* mutant of AuditSet: the two branches exchanged
AuditSwapped(x, user, change) ==
    IF change THEN [x EXCEPT !.created_by = user]
    ELSE [x EXCEPT !.updated_by = user]

\* PostAdmin.save_model: the audit field is set, then obj.save() is called
AuditSet(x, user, change) ==
    IF change THEN [x EXCEPT !.updated_by = user]
    ELSE [x EXCEPT !.created_by = user]

SaveModel(o, x, user, change) ==
    SaveHead(o, AuditSet(x, user, change), <<Event("save_model", <<user, change, x>>)>>)

\* the admin calls save_model with change = "the object exists"
Call(o, x, caller) ==
    IF caller = None THEN SaveHead(o, x, <<>>)
    ELSE SaveModel(o, x, caller, x.pk # 0)

\* a request takes the lowest idle flow
Free(o) == pc[o] = "idle" /\ \A p \in Flows : p < o => pc[p] # "idle"

\* a new instance is built and saved
SaveNew(o, n, s, i, caller) ==
    /\ Free(o)
    /\ Call(o, Edited(Blank, n, s, i), caller)

\* an instance is read from its row, changed and saved
SaveLoaded(o, r, n, s, i, caller) ==
    /\ Free(o)
    /\ Call(o, Edited(LoadedInstance(r), n, s, i), caller)

\* the instance of the save() that ended last is changed and saved again
SaveAgain(o, n, s, i, caller) ==
    /\ Free(o)
    /\ last.result # "none"
    /\ Call(o, Edited(last.obj, n, s, i), caller)

\* the name the storage gives an upload
AvailableName(dir, base) ==
    IF <<dir>> \o base \notin DOMAIN files THEN <<dir>> \o base
    ELSE <<dir>> \o base \o <<"_", Cardinality(DOMAIN files)>>

\* the image field after FileField.pre_save: an upload is stored under
\* upload_to and the field takes the stored name
Committed(i) ==
    IF Truthy(i.name) /\ ~i.committed
    THEN [name |-> AvailableName(UploadTo(kind), i.name), committed |-> TRUE]
    ELSE i

\* mutants of UniqueViolation: no constraint; a constraint checked on update only
NoConstraint(x) == FALSE

UpdateOnlyConstraint(x) ==
    /\ HasSlug(kind)
    /\ x.slug # None
    /\ x.pk # 0
    /\ \E r \in db : r.pk # x.pk /\ r.slug = x.slug

\* unique=True on the slug column (a NULL never collides)
UniqueViolation(x) ==
    /\ HasSlug(kind)
    /\ x.slug # None
    /\ \E r \in db : r.pk # x.pk /\ r.slug = x.slug

RowOf(x) ==
    [pk |-> x.pk, name |-> x.name, slug |-> x.slug,
     img |-> IF Truthy(x.img.name) THEN x.img.name ELSE Empty,
     created_by |-> x.created_by, updated_by |-> x.updated_by]

\* mutant of GoesOn: the exception of super().save() is swallowed
GoesOnAnyway(ok) == HasImage(kind)

\* whether save() goes on after super().save(): an exception leaves it,
\* and Tag, Category and Page return what super().save() returned
GoesOn(ok) == ok /\ HasImage(kind)

IsAdmin(t) == t # <<>> /\ t[1].ev = "save_model"

\* history: which admin requests created and last changed the post
AuditAfter(t, pk) ==
    LET old == IF pk \in DOMAIN audit THEN audit[pk]
               ELSE [creator |-> None, editor |-> None, pure |-> TRUE]
        new == IF ~IsAdmin(t) THEN [old EXCEPT !.pure = FALSE]
               ELSE IF t[1].val[2] THEN [old EXCEPT !.editor = t[1].val[1]]
               ELSE [old EXCEPT !.creator = t[1].val[1]]
    IN  [p \in DOMAIN audit \cup {pk} |-> IF p = pk THEN new ELSE audit[p]]

\* super().save(): the upload is stored, then the row is inserted (no pk)
\* or updated; a unique violation raises IntegrityError out of save()
SaveWrite(o) ==
    /\ pc[o] = "write"
    /\ LET img == Committed(obj[o].img)
           stored == img # obj[o].img
           ok == ~UniqueViolation(obj[o])
           pk == IF obj[o].pk = 0 THEN Cardinality(db) + 1 ELSE obj[o].pk
           x == [obj[o] EXCEPT !.img = img, !.pk = IF ok THEN pk ELSE @]
           t == Append(trace[o], Event("write", <<ok, img.name>>))
       IN  /\ stored => Cardinality(DOMAIN files) < MaxFiles
           /\ ok /\ obj[o].pk = 0 => Cardinality(db) < MaxRows
           /\ files' = IF stored
                       THEN [f \in DOMAIN files \cup {img.name} |->
                               IF f = img.name THEN <<>> ELSE files[f]]
                       ELSE files
           /\ db' = IF ok THEN {r \in db : r.pk # pk} \cup {RowOf(x)} ELSE db
           /\ audit' = IF ok /\ HasAudit(kind) THEN AuditAfter(trace[o], pk) ELSE audit
           /\ IF GoesOn(ok)
              THEN /\ obj' = [obj EXCEPT ![o] = x]
                   /\ trace' = [trace EXCEPT ![o] = t]
                   /\ pc' = [pc EXCEPT ![o] = "post"]
                   /\ last' = last
              ELSE Return(o, x, t, IF ok THEN "ok" ELSE "IntegrityError")
           /\ UNCHANGED kind

\* mutant of ImageChanged: the "if self.cover" test is dropped
NameDiffers(captured, name) == captured # name

\* "if self.cover: cover_changed = current_cover_name != self.cover.name"
ImageChanged(captured, name) == Truthy(name) /\ captured # name

Captured(t) == t[CHOOSE i \in 1..Len(t) : t[i].ev = "capture"].val

\* the tail of save(): the image did not change, no resize
SaveNoResize(o) ==
    /\ pc[o] = "post"
    /\ ~ImageChanged(Captured(trace[o]), obj[o].img.name)
    /\ Return(o, obj[o], trace[o], "ok")
    /\ UNCHANGED <<kind, db, files, audit>>

\* mutant of ResultAfterResize: the exception of resize_image is swallowed
Swallowed(ok) == "ok"

\* how save() ends after resize_image returned (ok) or raised
ResultAfterResize(ok) == IF ok THEN "ok" ELSE "ResizeFailure"

\* utils.images.resize_image, from the specification: the stored file is
\* rewritten to the arguments, or the call raises and the file stays
ResizeImage(name, args, ok) ==
    IF ok /\ name \in DOMAIN files THEN [files EXCEPT ![name] = args] ELSE files

Events(t, e) == {i \in 1..Len(t) : t[i].ev = e}

\* mutant of SaveResize: resize_image is called before super().save()
SaveResizeEarly(o, ok) ==
    /\ pc[o] = "write"
    /\ Truthy(obj[o].img.name)
    /\ Events(trace[o], "resize") = {}
    /\ files' = ResizeImage(obj[o].img.name, ResizeSpec(kind), ok)
    /\ trace' = [trace EXCEPT ![o] =
                   Append(@, Event("resize", <<obj[o].img.name, ResizeSpec(kind), ok>>))]
    /\ UNCHANGED <<kind, db, obj, pc, last, audit>>

\* the tail of save(): resize_image on the changed image
SaveResize(o, ok) ==
    /\ pc[o] = "post"
    /\ ImageChanged(Captured(trace[o]), obj[o].img.name)
    /\ files' = ResizeImage(obj[o].img.name, ResizeSpec(kind), ok)
    /\ Return(o, obj[o],
              Append(trace[o], Event("resize", <<obj[o].img.name, ResizeSpec(kind), ok>>)),
              ResultAfterResize(ok))
    /\ UNCHANGED <<kind, db, audit>>

--------------------------------------------------------------------------
(* Specifications *)

\* the requests of scope S
New(o, S) ==
    \E n \in S.names, s \in S.slugs, i \in S.images, c \in CallersOf(S) :
        SaveNew(o, n, s, i, c)

Loaded(o, S) ==
    \E r \in db, n \in S.names, s \in S.slugs, i \in S.images, c \in CallersOf(S) :
        SaveLoaded(o, r, n, s, i, c)

Again(o, S) ==
    \E n \in S.names, s \in S.slugs, i \in S.images, c \in CallersOf(S) :
        SaveAgain(o, n, s, i, c)

Saving(o) == pc[o] # "idle"

\* one save() at a time, as on a single worker
Alone(o) == \A p \in Flows \ {o} : ~Saving(p)

\* concurrent requests that derive slugs from the same normalized name
Next ==
    \E o \in Flows :
        \/ New(o, RaceScope)
        \/ Loaded(o, RaceScope)
        \/ Again(o, RaceScope)
        \/ SaveWrite(o)
        \/ SaveNoResize(o)

Spec == Init /\ [][Next]_vars

\* one request at a time: renames and slugs
SeqNext ==
    \E o \in Flows :
        \/ Alone(o) /\ New(o, SlugScope)
        \/ Alone(o) /\ Loaded(o, SlugScope)
        \/ Alone(o) /\ Again(o, SlugScope)
        \/ Alone(o) /\ SaveWrite(o)
        \/ Alone(o) /\ SaveNoResize(o)

SeqSpec == Init /\ [][SeqNext]_vars

\* one request at a time: covers and favicons
ImageNext ==
    \E o \in Flows :
        \/ Alone(o) /\ New(o, ImageScope)
        \/ Alone(o) /\ Loaded(o, ImageScope)
        \/ Alone(o) /\ Again(o, ImageScope)
        \/ Alone(o) /\ SaveWrite(o)
        \/ Alone(o) /\ SaveNoResize(o)
        \/ \E ok \in BOOLEAN : Alone(o) /\ SaveResize(o, ok)

ImageSpec == Init /\ [][ImageNext]_vars

\* one request at a time: the admin's users
AdminNext ==
    \E o \in Flows :
        \/ Alone(o) /\ New(o, AdminScope)
        \/ Alone(o) /\ Loaded(o, AdminScope)
        \/ Alone(o) /\ Again(o, AdminScope)
        \/ Alone(o) /\ SaveWrite(o)
        \/ Alone(o) /\ SaveNoResize(o)

AdminSpec == Init /\ [][AdminNext]_vars

--------------------------------------------------------------------------
(* Properties *)

\* the save() calls in progress, and the one that ended last
Runs ==
    {[obj |-> obj[o], trace |-> trace[o], result |-> "none"] : o \in {f \in Flows : Saving(f)}}
        \cup (IF last.result = "none" THEN {} ELSE {last})

\* the slug save() was called with
SlugAtCall(t) == t[CHOOSE i \in 1..Len(t) : t[i].ev = "save"].val

\* the write of super().save() in a trace: <<succeeded, image name after it>>
WriteOf(t) == t[CHOOSE i \in 1..Len(t) : t[i].ev = "write"].val

Wrote(t) == Events(t, "write") # {} /\ WriteOf(t)[1]

\* no save() has written since the last one ended and not yet returned
Quiet == \A o \in Flows : pc[o] # "post"

\* a slug without its separator and suffix
Base(s) == SubSeq(s, 1, Len(s) - SlugSuffixLen - 1)

\* C1: a save() called on an instance whose slug is non-empty assigns no
\* slug: during and after it the instance has the slug it was called with,
\* whatever the name has become, and that is the slug its row gets.
C1_SlugKept ==
    HasSlug(kind) =>
        \A run \in Runs :
            LET s0 == SlugAtCall(run.trace)
            IN  (s0 # None /\ s0 # Empty) =>
                    /\ run.obj.slug = s0
                    /\ Events(run.trace, "assign") = {}
                    /\ (Wrote(run.trace) /\ run = last /\ Quiet) =>
                           \E r \in db : r.pk = run.obj.pk /\ r.slug = s0

\* C1 witness: a renamed entity was saved again and kept the slug its
\* first save derived from the old name.
C1_Witness ==
    /\ HasSlug(kind)
    /\ last.result = "ok"
    /\ SlugAtCall(last.trace) = last.obj.slug
    /\ last.obj.slug # UserSlug
    /\ Base(last.obj.slug) # Normalize(last.obj.name)
    /\ \E r \in db : r.pk = last.obj.pk /\ r.name = last.obj.name /\ r.slug = last.obj.slug

\* C2: in every state reached by sequential saves no two rows of the table
\* have the same slug (and no two the same pk).
C2_SlugsUnique ==
    \A r1, r2 \in db : r1 # r2 => r1.pk # r2.pk /\ (HasSlug(kind) => r1.slug # r2.slug)

\* C2 witness: two rows whose names normalize to the same base, both with
\* a slug of that base, and the slugs differ.
C2_Witness ==
    /\ HasSlug(kind)
    /\ \E r1, r2 \in db :
          /\ r1.pk # r2.pk
          /\ Normalize(r1.name) # r1.name
          /\ Normalize(r1.name) = Normalize(r2.name)
          /\ Base(r1.slug) = Normalize(r1.name)
          /\ Base(r2.slug) = Normalize(r2.name)
          /\ r1.slug # r2.slug

\* the write of flow o would give a second row the slug of another row
Clash(o) == \E r \in db : r.pk # obj[o].pk /\ r.slug = obj[o].slug

\* C3: with concurrent saves, a write whose slug another row already holds
\* fails at write time with IntegrityError and changes no row, so however
\* two flows that derived the same slug interleave, at most one of them
\* writes it and no state has two rows with the same slug.
C3_RaceLosesAtWrite ==
    [][\A o \in Flows :
          (HasSlug(kind) /\ pc[o] = "write" /\ pc'[o] # "write") =>
              /\ Clash(o) => (db' = db /\ last'.result = "IntegrityError")
              /\ \A r1, r2 \in db' : r1.pk # r2.pk => r1.slug # r2.slug]_vars

\* C3 witness: a flow derived a slug no row held, another flow wrote that
\* slug first, and the flow's own write failed.
C3_Witness ==
    /\ last.result = "IntegrityError"
    /\ last.obj.pk = 0
    /\ Events(last.trace, "assign") # {}
    /\ \E r \in db : r.slug = last.obj.slug

\* C4: a resize comes after the successful write of the same save(), and
\* the image name was captured before that write.
C4_ResizeAfterWrite ==
    \A run \in Runs :
        \A i \in Events(run.trace, "resize") :
            \E j \in Events(run.trace, "write") :
                /\ j < i
                /\ run.trace[j].val[1]
                /\ \E k \in Events(run.trace, "capture") : k < j

\* C4 witness: a save() that resized.
C4_Witness ==
    /\ Events(last.trace, "resize") # {}
    /\ Wrote(last.trace)

\* C5: a save() of a Post or SiteSetup whose write succeeded and that has
\* ended resized if and only if the image name after the write is not
\* empty and is not the name captured before the write.
C5_ResizeIffChanged ==
    (HasImage(kind) /\ last.result \in {"ok", "ResizeFailure"}) =>
        LET before == Captured(last.trace)
            after == WriteOf(last.trace)[2]
        IN  (Events(last.trace, "resize") # {})
                <=> (after # Empty /\ after # None /\ after # before)

\* C5 witness: an upload on an instance without image (absent to present)
\* was resized.
C5_Witness ==
    /\ HasImage(kind)
    /\ last.result = "ok"
    /\ Captured(last.trace) \in Uploads
    /\ Events(last.trace, "resize") # {}
    /\ last.obj.pk # 0

\* C6: when resize_image raises after the write, save() ends with that
\* failure and the row written stays as written: it has the new image
\* name and the slug, and the stored file is as uploaded.
C6_ResizeFailureKeepsRow ==
    \A run \in Runs :
        \A i \in Events(run.trace, "resize") :
            ~run.trace[i].val[3] =>
                /\ run.result = "ResizeFailure"
                /\ Quiet =>
                      /\ \E r \in db :
                            /\ r.pk = run.obj.pk
                            /\ r.img = run.obj.img.name
                            /\ r.img = WriteOf(run.trace)[2]
                            /\ r.slug = run.obj.slug
                      /\ run.obj.img.name \in DOMAIN files
                      /\ files[run.obj.img.name] = <<>>

\* C6 witness: a save() ended with ResizeFailure.
C6_Witness ==
    /\ last.result = "ResizeFailure"
    /\ \E r \in db : r.pk = last.obj.pk /\ r.img = last.obj.img.name

\* a failed write: the last event of its trace
Failed(t) == Events(t, "write") # {} /\ ~WriteOf(t)[1]

\* C7: when the write of super().save() fails, save() ends there with
\* IntegrityError: no row changes, a new instance has no pk, and nothing is
\* resized.
C7_FailedWrite ==
    /\ [](\A run \in Runs :
            Failed(run.trace) =>
                /\ run.result = "IntegrityError"
                /\ Events(run.trace, "resize") = {}
                /\ run.trace[Len(run.trace)].ev = "write")
    /\ [][\A o \in Flows :
            (pc[o] = "write" /\ Clash(o) /\ HasSlug(kind) /\ pc'[o] # "write") =>
                /\ db' = db
                /\ pc'[o] = "idle"
                /\ last'.result = "IntegrityError"
                /\ last'.obj.pk = obj[o].pk]_vars

\* C7 witness: a new Post with an upload failed at the write.
C7_Witness ==
    /\ kind = "Post"
    /\ last.result = "IntegrityError"
    /\ last.obj.pk = 0
    /\ Truthy(last.obj.img.name)
    /\ Captured(last.trace) \in Uploads

\* C8: save() assigns a slug exactly when the slug it is called with is
\* None or "", it does so before the write, and no row of Tag, Category,
\* Page or Post has an empty slug.
C8_AssignedWhenAbsent ==
    /\ \A run \in Runs :
          LET s0 == SlugAtCall(run.trace)
              assigns == Events(run.trace, "assign")
          IN  /\ (assigns # {}) <=> (HasSlug(kind) /\ (s0 = None \/ s0 = Empty))
              /\ \A i \in assigns :
                    /\ run.trace[i].val # None /\ run.trace[i].val # Empty
                    /\ \A j \in Events(run.trace, "write") : i < j
    /\ HasSlug(kind) => \A r \in db : r.slug # None /\ r.slug # Empty

\* C8 witness: a Page saved with slug "" got a slug and a row.
C8_Witness ==
    /\ kind = "Page"
    /\ last.result = "ok"
    /\ SlugAtCall(last.trace) = Empty
    /\ Events(last.trace, "assign") # {}
    /\ \E r \in db : r.pk = last.obj.pk /\ r.slug = last.obj.slug

\* C9: every resize of a Post is called on its cover with (900, True, 75),
\* every resize of a SiteSetup on its favicon with (32) alone, and the other
\* kinds never resize.
C9_ResizeArguments ==
    \A run \in Runs :
        \A i \in Events(run.trace, "resize") :
            /\ kind \in {"Post", "SiteSetup"}
            /\ run.trace[i].val[1] = run.obj.img.name
            /\ kind = "Post" => run.trace[i].val[2] = <<900, TRUE, 75>>
            /\ kind = "SiteSetup" => run.trace[i].val[2] = <<32>>

\* C9 witness: a save() of a Post resized its stored cover.
C9_Witness ==
    /\ kind = "Post"
    /\ \E i \in Events(last.trace, "resize") :
          last.trace[i].val[1] = WriteOf(last.trace)[2]

\* the admin request of a trace: <<user, change, the instance it was given>>
Request(t) == t[1].val

\* C10: save_model sets created_by on an add and updated_by on a change
\* and leaves the other field as it was; so a post written by admin
\* requests only has the user who added it as created_by and the user of
\* the last change as updated_by (None until the first change).
C10_AuditFields ==
    /\ \A run \in Runs :
          IsAdmin(run.trace) =>
              LET user == Request(run.trace)[1]
                  change == Request(run.trace)[2]
                  given == Request(run.trace)[3]
              IN  IF change
                  THEN /\ run.obj.updated_by = user
                       /\ run.obj.created_by = given.created_by
                  ELSE /\ run.obj.created_by = user
                       /\ run.obj.updated_by = given.updated_by
    /\ HasAudit(kind) =>
          \A r \in db :
              /\ r.pk \in DOMAIN audit
              /\ audit[r.pk].pure =>
                    /\ r.created_by = audit[r.pk].creator
                    /\ r.created_by \in Users
                    /\ r.updated_by = audit[r.pk].editor

\* C10 witness: a post added by one user and changed by the other.
C10_Witness ==
    /\ kind = "Post"
    /\ \E r \in db :
          /\ audit[r.pk].pure
          /\ r.created_by = <<"ana">>
          /\ r.updated_by = <<"bob">>

===========================================================================
